---- MODULE Spec2Model ----
(***************************************************************************)
(* DecoTV: the image preload hook (useImagePreload), the virtual grid     *)
(* component (VirtualGrid) that drives it, the source filter hook          *)
(* (useSourceFilter) and the TVBox subscription calls (mergeTVBoxSites,    *)
(* removeTVBoxSites).                                                      *)
(*                                                                         *)
(* A URL string is a sequence of one-character strings, so that trim(),    *)
(* the emptiness test and URL resolution (the href getter of a link        *)
(* element) are computed on the characters.                                *)
(***************************************************************************)
EXTENDS Integers, Sequences, FiniteSets, TLC

\* ------------------------------------------------------------------ bounds
NumInstances == 2
MaxLinks == 3
MaxUrls == 2
MaxCount == 2
MaxItems == 3
MaxPriority == 2
MaxScroll == 21

Instances == 1..NumInstances
LinkIds == 1..MaxLinks
Counts == 1..MaxCount

\* ------------------------------------------------------------ URL strings
UrlEmpty == <<>>
UrlBlank == <<" ">>
UrlRelC == <<"/", "c">>
UrlAbsC == <<"h", "/", "c">>
Origin == <<"h">>

Urls == {UrlEmpty, UrlBlank, UrlRelC, UrlAbsC}

UrlLists == UNION {[1..n -> Urls] : n \in 0..MaxUrls}

Range(s) == {s[k] : k \in DOMAIN s}

Min(a, b) == IF a <= b THEN a ELSE b

Max(a, b) == IF a >= b THEN a ELSE b

\* String.prototype.trim: strips leading and trailing white space.
RECURSIVE Trim(_)
Trim(u) ==
  IF u = <<>> THEN u
  ELSE IF Head(u) = " " THEN Trim(Tail(u))
  ELSE IF u[Len(u)] = " " THEN Trim(SubSeq(u, 1, Len(u) - 1))
  ELSE u

\* The filter predicate: url && url.trim() !== ''
IsValidUrl(u) == u # <<>> /\ Trim(u) # <<>>

\* Array.prototype.slice(0, count)
Slice0(us, c) ==
  IF c >= 0 THEN SubSeq(us, 1, Min(c, Len(us)))
  ELSE SubSeq(us, 1, Max(Len(us) + c, 0))

\* urls.slice(0, count).filter((url) => url && url.trim() !== '')
UrlsToPreload(us, c) == SelectSeq(Slice0(us, c), IsValidUrl)

\* The href getter of a link element: the attribute resolved against the
\* document's base URL. A path-absolute reference gets the origin in front.
Href(attr) ==
  IF attr # <<>> /\ Head(attr) = "/" THEN Origin \o attr ELSE attr

\* --------------------------------------------------------- preload state
VARIABLES
  mounted,        \* instance -> is the component mounted
  scheduled,      \* instance -> urlsToPreload of its latest schedule effect
  addedLinks,     \* instance -> addedLinksRef.current (sequence of link ids)
  links,          \* link id -> the element (href attribute, creator) or NoLink
  head,           \* the preload link elements attached to the document
  preloadedUrls,  \* the module-level Set of URL strings
  uncaught,       \* an exception escaped an effect
  lastEvent       \* the handler that ran last, its input and what it did

preloadVars ==
  <<mounted, scheduled, addedLinks, links, head, preloadedUrls, uncaught,
    lastEvent>>

NoLink == [href |-> <<>>, by |-> 0]

Event(op, i, us, c, created, removed, caught) ==
  [op |-> op, inst |-> i, urls |-> us, count |-> c, created |-> created,
   removed |-> removed, caught |-> caught]

\* Link ids that no list and no document refers to can be allocated.
Referenced(hd, added) ==
  hd \cup UNION {Range(added[i]) : i \in Instances}

Collect(lk, hd, added) ==
  [e \in LinkIds |-> IF e \in Referenced(hd, added) THEN lk[e] ELSE NoLink]

\* document.querySelector(`link[rel="preload"][href="..."]`): matches the
\* href attribute as written.
QuerySelectorNone(S, url) == {}

QuerySelector(S, url) == {e \in S.head : S.links[e].href = url}

\* One iteration of urlsToPreload.forEach in the schedule effect.
ScheduleOne(S, i, url) ==
  IF url \in S.reg THEN S
  ELSE IF QuerySelector(S, url) # {} THEN [S EXCEPT !.reg = @ \cup {url}]
  ELSE LET free == LinkIds \ (S.head \cup Range(S.added) \cup S.taken)
           e == CHOOSE x \in free : \A y \in free : x <= y
       IN [S EXCEPT !.links[e] = [href |-> url, by |-> i],
                    !.head = @ \cup {e},
                    !.added = Append(@, e),
                    !.created = @ \cup {e},
                    !.reg = @ \cup {url}]

RECURSIVE ScheduleAll(_, _, _)
ScheduleAll(S, i, todo) ==
  IF todo = <<>> THEN S
  ELSE ScheduleAll(ScheduleOne(S, i, Head(todo)), i, Tail(todo))

\* The schedule effect of instance i run with (urls, count).
ScheduleEffect(i, us, c, added, op) ==
  LET todo == IF Len(us) = 0 THEN <<>> ELSE UrlsToPreload(us, c)
      others == UNION {Range(addedLinks[j]) : j \in Instances \ {i}}
      S0 == [head |-> head, reg |-> preloadedUrls, added |-> added,
             links |-> links, created |-> {}, taken |-> others]
  IN /\ Cardinality(LinkIds \ (head \cup Range(added) \cup others)) >= Len(todo)
     /\ \E S \in {ScheduleAll(S0, i, todo)} :
          LET addedNew == [addedLinks EXCEPT ![i] = S.added]
          IN /\ head' = S.head
             /\ preloadedUrls' = S.reg
             /\ addedLinks' = addedNew
             /\ links' = Collect(S.links, S.head, addedNew)
             /\ scheduled' = [scheduled EXCEPT ![i] = todo]
             /\ lastEvent' = Event(op, i, us, c, S.created, {}, 0)
             /\ UNCHANGED uncaught

\* The try body of the cleanup: removeChild throws when the element is not
\* a child of document.head; the registry delete uses the resolved href.
RemoveLinkNoCatch(S, e) ==
  IF e \in S.head
  THEN [S EXCEPT !.head = @ \ {e},
                 !.reg = @ \ {Href(links[e].href)},
                 !.removed = @ \cup {e}]
  ELSE [S EXCEPT !.thrown = TRUE]

RemoveLink(S, e) ==
  IF e \in S.head
  THEN [S EXCEPT !.head = @ \ {e},
                 !.reg = @ \ {Href(links[e].href)},
                 !.removed = @ \cup {e}]
  ELSE [S EXCEPT !.caught = @ + 1]

RECURSIVE CleanupAll(_, _)
CleanupAll(S, todo) ==
  IF todo = <<>> \/ S.thrown THEN S
  ELSE CleanupAll(RemoveLink(S, Head(todo)), Tail(todo))

\* The elements the unmount cleanup of instance i walks over.
CleanupTargetsByHref(i) ==
  LET mine == {Href(links[addedLinks[i][k]].href) : k \in DOMAIN addedLinks[i]}
      hit == {e \in head : Href(links[e].href) \in mine}
      pick[s \in SUBSET hit] ==
        IF s = {} THEN <<>>
        ELSE LET e == CHOOSE x \in s : \A y \in s : x <= y
             IN <<e>> \o pick[s \ {e}]
  IN pick[hit]

CleanupTargets(i) == addedLinks[i]

\* --------------------------------------------------------------- actions
\* A component instance mounts: a fresh addedLinksRef, then its effects run.
Mount(i, us, c) ==
  /\ ~mounted[i]
  /\ mounted' = [mounted EXCEPT ![i] = TRUE]
  /\ ScheduleEffect(i, us, c, <<>>, "mount")

\* urls or count changed: the schedule effect runs again.
Rerender(i, us, c) ==
  /\ mounted[i]
  /\ UNCHANGED mounted
  /\ ScheduleEffect(i, us, c, addedLinks[i], "rerender")

\* The instance unmounts: the cleanup of the second effect runs.
Unmount(i) ==
  LET S0 == [head |-> head, reg |-> preloadedUrls, removed |-> {},
             caught |-> 0, thrown |-> FALSE]
  IN /\ mounted[i]
     /\ mounted' = [mounted EXCEPT ![i] = FALSE]
     /\ \E S \in {CleanupAll(S0, CleanupTargets(i))} :
          LET addedNew ==
                [addedLinks EXCEPT ![i] = IF S.thrown THEN @ ELSE <<>>]
          IN /\ head' = S.head
             /\ preloadedUrls' = S.reg
             /\ addedLinks' = addedNew
             /\ links' = Collect(links, S.head, addedNew)
             /\ scheduled' = [scheduled EXCEPT ![i] = <<>>]
             /\ uncaught' = (uncaught \/ S.thrown)
             /\ lastEvent' =
                  Event("unmount", i, <<>>, 0, {}, S.removed, S.caught)

\* Another path (not the hook) removes a hint element from the document.
RemoveByOtherPath(e) ==
  /\ e \in head
  /\ head' = head \ {e}
  /\ links' = Collect(links, head \ {e}, addedLinks)
  /\ lastEvent' = Event("remove", 0, <<>>, 0, {}, {e}, 0)
  /\ UNCHANGED <<mounted, scheduled, addedLinks, preloadedUrls, uncaught>>

\* The document may already carry a preload hint that the hook did not add.
PreloadInit ==
  /\ mounted = [i \in Instances |-> FALSE]
  /\ scheduled = [i \in Instances |-> <<>>]
  /\ addedLinks = [i \in Instances |-> <<>>]
  /\ \E pre \in {{}, {1}} :
       /\ head = pre
       /\ links = [e \in LinkIds |->
                     IF e \in pre THEN [href |-> UrlAbsC, by |-> 0] ELSE NoLink]
  /\ preloadedUrls = {}
  /\ uncaught = FALSE
  /\ lastEvent = Event("init", 0, <<>>, 0, {}, {}, 0)

\* ------------------------------------------------------ program constants
DefaultPriorityCount == 12
DefaultContainerHeight == 600
OverscanCount == 2

\* ------------------------------------------------------------ grid state
VARIABLES
  items,          \* the items prop: the poster of each item ('' when absent)
  priorityCount,  \* the priorityCount prop
  height,         \* the height prop: a number of pixels, or a CSS string
  GridComponent,  \* TRUE once import('react-window') has resolved
  geometry,       \* what useResponsiveGrid returns
  scrollTop,      \* the scroll offset of the grid element
  rendered,       \* what the last render pass returned
  preloadCall     \* the arguments of the useImagePreload call of that pass

gridVars ==
  <<items, priorityCount, height, GridComponent, geometry, scrollTop, rendered,
    preloadCall>>

Posters == {UrlEmpty, UrlAbsC, UrlRelC}

ScenarioItems == [k \in 1..100 |-> UrlAbsC]

ItemLists == UNION {[1..n -> Posters] : n \in 0..MaxItems} \cup {ScenarioItems}

PriorityCounts == 0..MaxPriority \cup {DefaultPriorityCount}

HeightCss == [kind |-> "string", px |-> 0]

Heights == {HeightCss, [kind |-> "number", px |-> 5]}

Widths == {0, 4, 7, 13, 22}

\* The breakpoint rules of the layout engine, largest threshold first.
Breakpoints ==
  << [minWidth |-> 20, columnCount |-> 5, gap |-> 2],
     [minWidth |-> 12, columnCount |-> 3, gap |-> 2],
     [minWidth |-> 6, columnCount |-> 2, gap |-> 1],
     [minWidth |-> 1, columnCount |-> 1, gap |-> 1] >>

Geometry(cols, iw, w, g) ==
  [columnCount |-> cols, itemWidth |-> iw, itemHeight |-> (iw * 3) \div 2,
   containerWidth |-> w, gap |-> g]

\* useResponsiveGrid: the geometries the layout engine may report for a
\* container width. The first satisfied threshold wins; an unmeasured
\* container (width 0) reports no column or the one-column minimum.
Layouts(w) ==
  IF w <= 0 THEN {Geometry(0, 0, 0, 0), Geometry(1, 0, 0, 0)}
  ELSE LET k == CHOOSE j \in DOMAIN Breakpoints :
                  /\ w >= Breakpoints[j].minWidth
                  /\ \A m \in 1..(j - 1) : w < Breakpoints[m].minWidth
           bp == Breakpoints[k]
       IN {Geometry(bp.columnCount,
                    (w - (bp.columnCount - 1) * bp.gap) \div bp.columnCount,
                    w, bp.gap)}

\* Math.ceil(items.length / columnCount); x / 0 is Infinity, 0 / 0 is NaN.
Finite(k) == [kind |-> "finite", value |-> k]

NotFinite(kind) == [kind |-> kind, value |-> 0]

RowCountFloor(n, cols) ==
  IF cols = 0 THEN (IF n = 0 THEN NotFinite("NaN") ELSE NotFinite("Infinity"))
  ELSE Finite(n \div cols)

RowCount(n, cols) ==
  IF cols = 0 THEN (IF n = 0 THEN NotFinite("NaN") ELSE NotFinite("Infinity"))
  ELSE IF n % cols = 0 THEN Finite(n \div cols) ELSE Finite(n \div cols + 1)

\* containerHeight: the height prop when it is a number, else 600.
ContainerHeight(ht) ==
  IF ht.kind = "number" THEN ht.px ELSE DefaultContainerHeight

\* gridWidth = columnCount * itemWidth + (columnCount - 1) * gap
GridWidth(geo) ==
  geo.columnCount * geo.itemWidth + (geo.columnCount - 1) * geo.gap

\* The style the grid renderer hands to a cell: the fixed-size position,
\* without gaps.
CellStyle(rowIndex, columnIndex, geo) ==
  [left |-> columnIndex * geo.itemWidth, top |-> rowIndex * geo.itemHeight,
   width |-> geo.itemWidth, height |-> geo.itemHeight]

\* The Cell function: a blank placeholder past the end of the items, else
\* the caller's renderItem(item, priority, index) in a gap-adjusted box.
CellPriorityInclusive(its, pc, geo, rowIndex, columnIndex, style) ==
  LET index == rowIndex * geo.columnCount + columnIndex
  IN IF index >= Len(its)
     THEN [kind |-> "blank", style |-> style]
     ELSE [kind |-> "item", item |-> its[index + 1],
           priority |-> (index <= pc), index |-> index,
           style |-> [left |-> style.left + columnIndex * geo.gap,
                      top |-> style.top + rowIndex * geo.gap,
                      width |-> style.width, height |-> style.height]]

Cell(its, pc, geo, rowIndex, columnIndex, style) ==
  LET index == rowIndex * geo.columnCount + columnIndex
  IN IF index >= Len(its)
     THEN [kind |-> "blank", style |-> style]
     ELSE [kind |-> "item", item |-> its[index + 1],
           priority |-> (index < pc), index |-> index,
           style |-> [left |-> style.left + columnIndex * geo.gap,
                      top |-> style.top + rowIndex * geo.gap,
                      width |-> style.width, height |-> style.height]]

\* The rows the grid renderer asks cells for: those that intersect the
\* viewport [scrollTop, scrollTop + containerHeight) at their fixed-size
\* positions, widened by the overscan count.
WindowRows(rows, geo, ht, st) ==
  IF rows.kind # "finite" \/ geo.itemHeight = 0 THEN {}
  ELSE LET first == st \div geo.itemHeight
           last == (st + ContainerHeight(ht) - 1) \div geo.itemHeight
       IN {r \in 0..(rows.value - 1) :
             r >= first - OverscanCount /\ r <= last + OverscanCount}

NoCells == [rc \in {} |-> 0]

\* The return value of VirtualGridInner.
RenderLoadingFirst(its, pc, ht, loaded, geo, st) ==
  LET rows == RowCount(Len(its), geo.columnCount)
  IN IF ~loaded
     THEN [view |-> "loading", rowCount |-> rows, cells |-> NoCells]
     ELSE IF Len(its) = 0
     THEN [view |-> "empty", rowCount |-> rows, cells |-> NoCells]
     ELSE IF geo.containerWidth > 0
     THEN [view |-> "grid", rowCount |-> rows,
           cells |-> [rc \in WindowRows(rows, geo, ht, st)
                              \X (0..(geo.columnCount - 1)) |->
                        Cell(its, pc, geo, rc[1], rc[2],
                             CellStyle(rc[1], rc[2], geo))]]
     ELSE [view |-> "container", rowCount |-> rows, cells |-> NoCells]

RenderNoWidthGate(its, pc, ht, loaded, geo, st) ==
  LET rows == RowCount(Len(its), geo.columnCount)
  IN IF Len(its) = 0
     THEN [view |-> "empty", rowCount |-> rows, cells |-> NoCells]
     ELSE IF ~loaded
     THEN [view |-> "loading", rowCount |-> rows, cells |-> NoCells]
     ELSE [view |-> "grid", rowCount |-> rows,
           cells |-> [rc \in WindowRows(rows, geo, ht, st)
                              \X (0..(geo.columnCount - 1)) |->
                        Cell(its, pc, geo, rc[1], rc[2],
                             CellStyle(rc[1], rc[2], geo))]]

Render(its, pc, ht, loaded, geo, st) ==
  LET rows == RowCount(Len(its), geo.columnCount)
  IN IF Len(its) = 0
     THEN [view |-> "empty", rowCount |-> rows, cells |-> NoCells]
     ELSE IF ~loaded
     THEN [view |-> "loading", rowCount |-> rows, cells |-> NoCells]
     ELSE IF geo.containerWidth > 0
     THEN [view |-> "grid", rowCount |-> rows,
           cells |-> [rc \in WindowRows(rows, geo, ht, st)
                              \X (0..(geo.columnCount - 1)) |->
                        Cell(its, pc, geo, rc[1], rc[2],
                             CellStyle(rc[1], rc[2], geo))]]
     ELSE [view |-> "container", rowCount |-> rows, cells |-> NoCells]

\* The largest scroll offset of the grid element: its content is rowCount
\* rows of itemHeight, its own height is containerHeight.
MaxScrollTop(its, ht, loaded, geo) ==
  IF Len(its) > 0 /\ loaded /\ geo.containerWidth > 0
  THEN Max(0, RowCount(Len(its), geo.columnCount).value * geo.itemHeight
                - ContainerHeight(ht))
  ELSE 0

\* items.map((item) => item.poster || '').filter(Boolean): an item is modelled
\* by its poster, the empty string standing for a missing one.
ImageUrls(its) == SelectSeq(its, LAMBDA p : p # UrlEmpty)

\* useImagePreload(imageUrls, priorityCount)
PreloadCall(its, pc) == [urls |-> ImageUrls(its), count |-> pc]

\* A render pass with the new props and state; the browser keeps the scroll
\* offset inside the scrollable range.
Rerendered(its, pc, loaded, geo, st) ==
  LET top == Min(st, MaxScrollTop(its, height, loaded, geo))
  IN /\ items' = its
     /\ priorityCount' = pc
     /\ GridComponent' = loaded
     /\ geometry' = geo
     /\ scrollTop' = top
     /\ rendered' = Render(its, pc, height, loaded, geo, top)
     /\ preloadCall' = PreloadCall(its, pc)
     /\ UNCHANGED height

GridInit ==
  /\ items \in ItemLists
  /\ priorityCount \in PriorityCounts
  /\ height \in Heights
  /\ GridComponent = FALSE
  /\ geometry \in Layouts(0)
  /\ scrollTop = 0
  /\ rendered = Render(items, priorityCount, height, FALSE, geometry, 0)
  /\ preloadCall = PreloadCall(items, priorityCount)

\* import('react-window') resolves: setGridComponent.
ModuleLoaded ==
  /\ ~GridComponent
  /\ Rerendered(items, priorityCount, TRUE, geometry, scrollTop)

\* The container is measured or resized: useResponsiveGrid reports anew.
Resize(w) ==
  \E geo \in Layouts(w) :
    Rerendered(items, priorityCount, GridComponent, geo, scrollTop)

\* The parent passes a new items list.
SetItems(its) ==
  /\ its # items
  /\ Rerendered(its, priorityCount, GridComponent, geometry, scrollTop)

\* The parent passes a new priorityCount.
SetPriorityCount(pc) ==
  /\ pc # priorityCount
  /\ Rerendered(items, pc, GridComponent, geometry, scrollTop)

\* The user scrolls the grid element.
Scroll(st) ==
  /\ rendered.view = "grid"
  /\ st # scrollTop
  /\ st <= MaxScrollTop(items, height, GridComponent, geometry)
  /\ Rerendered(items, priorityCount, GridComponent, geometry, st)

\* ------------------------------------------------- source filter (hook)
\* useSourceFilter: the selected source, its category list and the requests
\* that fetch it. A category name is a sequence of characters; the Chinese
\* characters of the source are written as one token each (pian for the
\* character of '片', ju for '剧', man for '漫', and so on).
VARIABLES
  sources,              \* keys of the ApiSite list held in state
  isLoadingSources,     \* a fetchSources request is in flight
  currentSource,        \* 'auto' or a source key
  sourceCategories,     \* the SourceCategory list held in state
  isLoadingCategories,
  error,
  inflight,             \* source key -> category requests awaiting a response
  filterCall            \* the last getFilteredCategories call and its result

sourceVars ==
  <<sources, isLoadingSources, currentSource, sourceCategories,
    isLoadingCategories, error, inflight, filterCall>>

MaxInFlight == 2
MaxCats == 3
SliceLimit == 15

ContentTypes == {"movie", "tv", "anime", "show"}

CONTENT_TYPE_KEYWORDS ==
  [ct \in ContentTypes |->
     CASE ct = "movie" ->
            << <<"dian", "ying">>, <<"ying", "pian">>, <<"da", "pian">>,
               <<"yuan", "xian">>, <<"4", "K">>, <<"lan", "guang">>,
               <<"pian">> >>
       [] ct = "tv" ->
            << <<"dian", "shi", "ju">>, <<"ju", "ji2">>,
               <<"lian", "xu", "ju">>, <<"guo", "chan", "ju">>,
               <<"mei", "ju">>, <<"han", "ju">>, <<"ri", "ju">>,
               <<"gang", "ju">>, <<"ju">> >>
       [] ct = "anime" ->
            << <<"dong", "man">>, <<"dong", "hua">>, <<"fan", "ju">>,
               <<"dong", "hua", "pian">>, <<"ka", "tong">>,
               <<"man", "hua">> >>
       [] ct = "show" ->
            << <<"zong", "yi">>, <<"zhen", "ren", "xiu">>,
               <<"tuo", "kou", "xiu">>, <<"wan", "hui">>,
               <<"ji4", "lu", "pian">> >>]

\* The characters of fallback strategy 1.
FallbackChars == << <<"pian">>, <<"ju">>, <<"man">> >>

\* String.prototype.toLowerCase: of the characters used here only the Latin
\* capitals have a lower-case form.
LowerChar(ch) == IF ch = "K" THEN "k" ELSE IF ch = "A" THEN "a" ELSE ch

ToLowerCase(str) == [k \in DOMAIN str |-> LowerChar(str[k])]

\* String.prototype.includes
Includes(str, sub) ==
  \E k \in 0..(Len(str) - Len(sub)) : SubSeq(str, k + 1, k + Len(sub)) = sub

\* keywords.some((keyword) => name.includes(keyword.toLowerCase())) with
\* name = cat.type_name.toLowerCase()
MatchesKeyword(cat, keywords) ==
  \E j \in DOMAIN keywords :
    Includes(ToLowerCase(cat.type_name), ToLowerCase(keywords[j]))

\* name.includes('片') || name.includes('剧') || name.includes('漫')
MatchesFallback(cat) ==
  \E j \in DOMAIN FallbackChars : Includes(cat.type_name, FallbackChars[j])

GetFilteredCategoriesNoFallback(cats, contentType) ==
  IF Len(cats) = 0 THEN <<>>
  ELSE LET keywords == CONTENT_TYPE_KEYWORDS[contentType]
           filtered == SelectSeq(cats, LAMBDA c : MatchesKeyword(c, keywords))
       IN IF Len(filtered) = 0 THEN Slice0(cats, SliceLimit) ELSE filtered

GetFilteredCategories(cats, contentType) ==
  IF Len(cats) = 0 THEN <<>>
  ELSE LET keywords == CONTENT_TYPE_KEYWORDS[contentType]
           filtered == SelectSeq(cats, LAMBDA c : MatchesKeyword(c, keywords))
           fallback == SelectSeq(cats, MatchesFallback)
       IN IF Len(filtered) # 0 THEN filtered
          ELSE IF Len(fallback) # 0 THEN fallback
          ELSE Slice0(cats, SliceLimit)

Category(id, name) == [type_id |-> id, type_name |-> name]

\* Category names a site may serve.
CategoryNames ==
  { <<"dian", "ying">>, <<"dong", "zuo", "pian">>, <<"guo", "chan", "ju">>,
    <<"dong", "man">>, <<"4", "k">>, <<"ti", "yu">> }

\* A site with more categories than the slice limit, none of them matching.
ManyCategories == [k \in 1..(SliceLimit + 1) |-> Category(k, <<"ti", "yu">>)]

CategoryLists ==
  UNION {{[k \in 1..n |-> Category(k, f[k])] : f \in [1..n -> CategoryNames]} :
           n \in 0..MaxCats}
    \cup {ManyCategories}

SourceKeys == {"a", "b"}

\* Keys the caller may select: 'auto', the listed sources and an unlisted one.
SelectableKeys == {"auto", "x"} \cup SourceKeys

\* data.class of the category response of each source.
ServerClass(key) ==
  IF key = "a" THEN <<Category(1, <<"dian", "ying">>)>>
  ELSE <<Category(1, <<"guo", "chan", "ju">>), Category(2, <<"dong", "man">>)>>

InFlightCount == inflight["a"] + inflight["b"]

NoFilterCall == [contentType |-> "none", result |-> <<>>]

\* State of the hook after its first render: fetchSources is under way.
SourceInit ==
  /\ sources = {}
  /\ isLoadingSources = TRUE
  /\ currentSource = "auto"
  /\ sourceCategories = <<>>
  /\ isLoadingCategories = FALSE
  /\ error = "null"
  /\ inflight = [k \in SourceKeys |-> 0]
  /\ filterCall = NoFilterCall

\* fetchSources: the response of /api/search/resources arrives.
FetchSourcesDone(ok) ==
  /\ isLoadingSources
  /\ isLoadingSources' = FALSE
  /\ IF ok THEN sources' = SourceKeys /\ UNCHANGED error
     ELSE error' = "sources" /\ UNCHANGED sources
  /\ UNCHANGED <<currentSource, sourceCategories, isLoadingCategories,
                 inflight, filterCall>>

\* refreshSources: fetchSources is called again.
RefreshSources ==
  /\ ~isLoadingSources
  /\ isLoadingSources' = TRUE
  /\ error' = "null"
  /\ UNCHANGED <<sources, currentSource, sourceCategories,
                 isLoadingCategories, inflight, filterCall>>

\* setCurrentSource(sourceKey): the state is set and, unless the key is
\* 'auto', fetchSourceCategories runs up to its await; a key that is not in
\* sources throws into the catch block at once.
SetCurrentSource(sourceKey) ==
  /\ currentSource' = sourceKey
  /\ IF sourceKey = "auto"
     THEN /\ sourceCategories' = <<>>
          /\ UNCHANGED <<isLoadingCategories, error, inflight>>
     ELSE IF sourceKey \notin sources
     THEN /\ error' = "not found"
          /\ sourceCategories' = <<>>
          /\ isLoadingCategories' = FALSE
          /\ UNCHANGED inflight
     ELSE /\ InFlightCount < MaxInFlight
          /\ isLoadingCategories' = TRUE
          /\ error' = "null"
          /\ inflight' = [inflight EXCEPT ![sourceKey] = @ + 1]
          /\ UNCHANGED sourceCategories
  /\ UNCHANGED <<sources, isLoadingSources, filterCall>>

\* The awaited fetch of a category request settles: the rest of
\* fetchSourceCategories runs, whatever has been selected since.
CompleteCategories(key, outcome) ==
  /\ inflight[key] > 0
  /\ inflight' = [inflight EXCEPT ![key] = @ - 1]
  /\ CASE outcome = "ok" ->
            sourceCategories' = ServerClass(key) /\ UNCHANGED error
       [] outcome = "no class" ->
            sourceCategories' = <<>> /\ UNCHANGED error
       [] outcome = "failed" ->
            sourceCategories' = <<>> /\ error' = "categories"
  /\ isLoadingCategories' = FALSE
  /\ UNCHANGED <<sources, isLoadingSources, currentSource, filterCall>>

\* A caller applies getFilteredCategories to the state.
CallGetFilteredCategories(contentType) ==
  /\ filterCall' =
       [contentType |-> contentType,
        result |-> GetFilteredCategories(sourceCategories, contentType)]
  /\ UNCHANGED <<sources, isLoadingSources, currentSource, sourceCategories,
                 isLoadingCategories, error, inflight>>

\* The hook holding any category list a site may have served.
FilterInit ==
  /\ sources = SourceKeys
  /\ isLoadingSources = FALSE
  /\ currentSource = "a"
  /\ sourceCategories \in CategoryLists
  /\ isLoadingCategories = FALSE
  /\ error = "null"
  /\ inflight = [k \in SourceKeys |-> 0]
  /\ filterCall = NoFilterCall

SourceIdle ==
  /\ sources = {}
  /\ isLoadingSources = FALSE
  /\ currentSource = "auto"
  /\ sourceCategories = <<>>
  /\ isLoadingCategories = FALSE
  /\ error = "null"
  /\ inflight = [k \in SourceKeys |-> 0]
  /\ filterCall = NoFilterCall

\* ------------------------------------------------ TVBox subscriptions
\* mergeTVBoxSites / removeTVBoxSites on the SourceConfig array of the admin
\* configuration. Keys and names are sequences of characters.
VARIABLES
  adminConfig,    \* the SourceConfig array of the configuration in use
  tvboxCall       \* the last call: its arguments and what it left behind

tvboxVars == <<adminConfig, tvboxCall>>

MaxSites == 2

\* The class [a-zA-Z0-9] of the characters used here.
IsAlnum(ch) == ch \in {"a", "b", "x", "y", "A", "c"}

\* name.replace(/[^a-zA-Z0-9]/g, '_').toLowerCase()
SanitizeKey(name) ==
  [k \in DOMAIN name |-> LowerChar(IF IsAlnum(name[k]) THEN name[k] ELSE "_")]

\* String.prototype.startsWith
StartsWith(str, prefix) ==
  Len(str) >= Len(prefix) /\ SubSeq(str, 1, Len(prefix)) = prefix

\* `tvbox_${safeName}_`
TvboxPrefix(safeName) == <<"t", "v", "b", "o", "x", "_">> \o safeName \o <<"_">>

\* A SourceConfig entry: key, name and from of the source; sub records the
\* subscription name an entry was merged under (empty for other entries).
SourceEntry(key, name, from, sub) ==
  [key |-> key, name |-> name, from |-> from, sub |-> sub]

\* The element mergeTVBoxSites makes of a site.
NewSite(site, subscriptionName) ==
  SourceEntry(TvboxPrefix(SanitizeKey(subscriptionName)) \o site.key,
              site.name, "tvbox", subscriptionName)

\* SourceConfig.filter((s) => !s.key.startsWith(`tvbox_${safeName}_`))
WithoutSubscription(cfg, subscriptionName) ==
  SelectSeq(cfg, LAMBDA e :
    ~StartsWith(e.key, TvboxPrefix(SanitizeKey(subscriptionName))))

\* The calls return the new SourceConfig array; input is what the array the
\* caller passed holds afterwards.
MergeTVBoxSitesNoFilter(cfg, sites, subscriptionName) ==
  [SourceConfig |->
     cfg \o [k \in DOMAIN sites |-> NewSite(sites[k], subscriptionName)],
   input |-> cfg]

MergeTVBoxSites(cfg, sites, subscriptionName) ==
  [SourceConfig |->
     WithoutSubscription(cfg, subscriptionName)
       \o [k \in DOMAIN sites |-> NewSite(sites[k], subscriptionName)],
   input |-> cfg]

RemoveTVBoxSites(cfg, subscriptionName) ==
  [SourceConfig |-> WithoutSubscription(cfg, subscriptionName), input |-> cfg]

SubscriptionNames ==
  { <<"a">>, <<"A">>, <<"a", "_", "b">>, <<"a", ".", "b">> }

SiteKeys == { <<"x">>, <<"y">> }

Site(key) == [key |-> key, name |-> key]

SiteLists == UNION {[1..n -> {Site(k) : k \in SiteKeys}] : n \in 0..MaxSites}

TvboxCall(op, name, sites, before, input) ==
  [op |-> op, name |-> name, sites |-> sites, before |-> before,
   input |-> input]

\* A configuration with one source from the config file, no subscription.
TvboxInit ==
  /\ adminConfig = <<SourceEntry(<<"c">>, <<"c">>, "config", <<>>)>>
  /\ tvboxCall = TvboxCall("none", <<>>, <<>>, <<>>, <<>>)

\* config = mergeTVBoxSites(config, sites, subscriptionName)
Merge(sites, subscriptionName) ==
  \E r \in {MergeTVBoxSites(adminConfig, sites, subscriptionName)} :
    /\ adminConfig' = r.SourceConfig
    /\ tvboxCall' =
         TvboxCall("merge", subscriptionName, sites, adminConfig, r.input)

\* config = removeTVBoxSites(config, subscriptionName)
Remove(subscriptionName) ==
  \E r \in {RemoveTVBoxSites(adminConfig, subscriptionName)} :
    /\ adminConfig' = r.SourceConfig
    /\ tvboxCall' =
         TvboxCall("remove", subscriptionName, <<>>, adminConfig, r.input)

\* The preload hook is idle while the grid is explored, and the reverse.
PreloadIdle ==
  /\ mounted = [i \in Instances |-> FALSE]
  /\ scheduled = [i \in Instances |-> <<>>]
  /\ addedLinks = [i \in Instances |-> <<>>]
  /\ head = {}
  /\ links = [e \in LinkIds |-> NoLink]
  /\ preloadedUrls = {}
  /\ uncaught = FALSE
  /\ lastEvent = Event("init", 0, <<>>, 0, {}, {}, 0)

GridIdle ==
  /\ items = <<>>
  /\ priorityCount = DefaultPriorityCount
  /\ height = HeightCss
  /\ GridComponent = FALSE
  /\ geometry = Geometry(0, 0, 0, 0)
  /\ scrollTop = 0
  /\ rendered = Render(<<>>, DefaultPriorityCount, HeightCss, FALSE, geometry, 0)
  /\ preloadCall = PreloadCall(<<>>, DefaultPriorityCount)

\* Each part of the program is explored with the other parts at rest.
exceptPreload == <<gridVars, sourceVars, tvboxVars>>

exceptGrid == <<preloadVars, sourceVars, tvboxVars>>

exceptSource == <<preloadVars, gridVars, tvboxVars>>

exceptTvbox == <<preloadVars, gridVars, sourceVars>>

MountAny ==
  /\ \E i \in Instances, us \in UrlLists, c \in Counts : Mount(i, us, c)
  /\ UNCHANGED exceptPreload

RerenderAny ==
  /\ \E i \in Instances, us \in UrlLists, c \in Counts : Rerender(i, us, c)
  /\ UNCHANGED exceptPreload

UnmountAny ==
  /\ \E i \in Instances : Unmount(i)
  /\ UNCHANGED exceptPreload

RemoveAny ==
  /\ \E e \in LinkIds : RemoveByOtherPath(e)
  /\ UNCHANGED exceptPreload

ModuleLoadedStep == ModuleLoaded /\ UNCHANGED exceptGrid

ResizeAny == (\E w \in Widths : Resize(w)) /\ UNCHANGED exceptGrid

SetItemsAny == (\E its \in ItemLists : SetItems(its)) /\ UNCHANGED exceptGrid

SetPriorityCountAny ==
  (\E pc \in PriorityCounts : SetPriorityCount(pc)) /\ UNCHANGED exceptGrid

ScrollAny == (\E st \in 0..MaxScroll : Scroll(st)) /\ UNCHANGED exceptGrid

FetchSourcesDoneAny ==
  (\E ok \in BOOLEAN : FetchSourcesDone(ok)) /\ UNCHANGED exceptSource

RefreshSourcesStep == RefreshSources /\ UNCHANGED exceptSource

SetCurrentSourceAny ==
  (\E key \in SelectableKeys : SetCurrentSource(key)) /\ UNCHANGED exceptSource

CompleteCategoriesAny ==
  /\ \E key \in SourceKeys, outcome \in {"ok", "no class", "failed"} :
       CompleteCategories(key, outcome)
  /\ UNCHANGED exceptSource

GetFilteredCategoriesAny ==
  /\ \E contentType \in ContentTypes : CallGetFilteredCategories(contentType)
  /\ UNCHANGED exceptSource

MergeAny ==
  /\ \E sites \in SiteLists, name \in SubscriptionNames : Merge(sites, name)
  /\ UNCHANGED exceptTvbox

RemoveSubscriptionAny ==
  /\ \E name \in SubscriptionNames : Remove(name)
  /\ UNCHANGED exceptTvbox

vars == <<preloadVars, gridVars, sourceVars, tvboxVars>>

\* The hook alone.
HookNext == MountAny \/ RerenderAny \/ UnmountAny

InitPreload == PreloadInit /\ GridIdle /\ SourceIdle /\ TvboxInit

SpecHook == InitPreload /\ [][HookNext]_vars

\* The hook in a document that other code may also take hints out of.
PreloadNext == MountAny \/ RerenderAny \/ UnmountAny \/ RemoveAny

SpecPreload == InitPreload /\ [][PreloadNext]_vars

\* The grid component.
GridNext ==
  ModuleLoadedStep \/ ResizeAny \/ SetItemsAny \/ SetPriorityCountAny \/ ScrollAny

InitGrid == GridInit /\ PreloadIdle /\ SourceIdle /\ TvboxInit

SpecGrid == InitGrid /\ [][GridNext]_vars

\* The source filter hook: selections and responses in any order.
SourceNext ==
  FetchSourcesDoneAny \/ RefreshSourcesStep \/ SetCurrentSourceAny
    \/ CompleteCategoriesAny \/ GetFilteredCategoriesAny

InitSource == SourceInit /\ PreloadIdle /\ GridIdle /\ TvboxInit

SpecSource == InitSource /\ [][SourceNext]_vars

\* getFilteredCategories applied to any category list.
FilterNext == GetFilteredCategoriesAny

InitFilter == FilterInit /\ PreloadIdle /\ GridIdle /\ TvboxInit

SpecFilter == InitFilter /\ [][FilterNext]_vars

\* The subscription calls on a configuration.
TvboxNext == MergeAny \/ RemoveSubscriptionAny

InitTvbox == TvboxInit /\ PreloadIdle /\ GridIdle /\ SourceIdle

SpecTvbox == InitTvbox /\ [][TvboxNext]_vars

\* ------------------------------------------------------- preload claims
IsScheduleEvent(ev) == ev.op \in {"mount", "rerender"}

\* The hint elements in the document whose href attribute is u.
HintsFor(hd, lk, u) == {e \in hd : lk[e].href = u}

\* The first `count` entries of a list that are URLs (non-empty, not blank).
FirstUrls(us, c) == {us[k] : k \in 1..Min(c, Len(us))} \ {UrlEmpty, UrlBlank}

\* The first `count` non-empty entries of a list.
FirstNonEmpty(us, c) == Slice0(SelectSeq(us, IsValidUrl), c)

\* C1: the unmount of instance a leaves in the document every hint element
\* that another, still mounted instance created; it removes only elements of
\* its own addedLinksRef list.
C1_UnmountKeepsOthersHints ==
  [][\A a \in Instances :
       (mounted[a] /\ ~mounted'[a]) =>
         /\ (head \ head') \subseteq Range(addedLinks[a])
         /\ \A e \in head :
              (links[e].by \in Instances \ {a} /\ mounted[links[e].by])
                => e \in head']_vars

\* C1 witness: an instance has unmounted and removed a hint of its own while
\* a hint created by another mounted instance is in the document.
C1_Witness ==
  /\ lastEvent.op = "unmount"
  /\ lastEvent.removed # {}
  /\ \E e \in head :
       /\ links[e].by \in Instances \ {lastEvent.inst}
       /\ mounted[links[e].by]
       /\ e \in Range(addedLinks[links[e].by])

\* C2: a schedule run that repeats the URL list and count of the run before
\* it creates no hint element and leaves exactly one hint element per
\* distinct URL among the first `count` URLs.
C2_SecondRunIdempotent ==
  [][(/\ IsScheduleEvent(lastEvent)
      /\ IsScheduleEvent(lastEvent')
      /\ lastEvent'.urls = lastEvent.urls
      /\ lastEvent'.count = lastEvent.count)
       => /\ lastEvent'.created = {}
          /\ \A u \in FirstUrls(lastEvent'.urls, lastEvent'.count) :
               Cardinality(HintsFor(head', links', u)) = 1]_vars

\* C3: the document never holds two preload hint elements for one URL.
C3_AtMostOneHintPerUrl ==
  \A e1 \in head, e2 \in head : links[e1].href = links[e2].href => e1 = e2

\* C3 witness: an instance has scheduled a URL that is registered and hinted
\* by another instance, and no second hint was created.
C3_Witness ==
  /\ IsScheduleEvent(lastEvent)
  /\ lastEvent.created = {}
  /\ \E u \in Range(scheduled[lastEvent.inst]) :
       /\ u \in preloadedUrls
       /\ \E e \in HintsFor(head, links, u) :
            links[e].by \in Instances \ {lastEvent.inst}

\* C4: the unmount of an instance takes every hint element the instance added
\* out of the document and takes the URL recorded for it out of the registry.
C4_TeardownClearsRegistry ==
  [][\A i \in Instances :
       (mounted[i] /\ ~mounted'[i]) =>
         \A e \in Range(addedLinks[i]) :
           /\ e \notin head'
           /\ links[e].href \notin preloadedUrls']_vars

\* C5: a schedule run considers exactly the first `count` non-empty URLs of
\* its list; each of them is registered afterwards and every hint it created
\* is owned by the calling instance.
C5_FirstCountNonEmpty ==
  IsScheduleEvent(lastEvent) =>
    /\ scheduled[lastEvent.inst] = FirstNonEmpty(lastEvent.urls, lastEvent.count)
    /\ Range(FirstNonEmpty(lastEvent.urls, lastEvent.count)) \subseteq preloadedUrls
    /\ lastEvent.created \subseteq Range(addedLinks[lastEvent.inst])

\* C6: an unmount that finds one of its hint elements already out of the
\* document raises no error, removes every other hint the instance added and
\* leaves the instance's list of owned hints empty.
C6_TeardownToleratesMissing ==
  [][\A i \in Instances :
       (/\ mounted[i]
        /\ ~mounted'[i]
        /\ \E e \in Range(addedLinks[i]) : e \notin head)
         => /\ ~uncaught'
            /\ addedLinks'[i] = <<>>
            /\ \A e \in Range(addedLinks[i]) : e \notin head']_vars

\* C6 witness: an unmount caught the failure of a removal and removed another
\* hint of the instance.
C6_Witness ==
  /\ lastEvent.op = "unmount"
  /\ lastEvent.caught >= 1
  /\ lastEvent.removed # {}
  /\ ~uncaught
  /\ addedLinks[lastEvent.inst] = <<>>

\* ---------------------------------------------------------- grid claims
\* ceil(n / c) for c >= 1: the least number of rows of c cells that hold n.
CeilDiv(n, c) == CHOOSE r \in 0..n : r * c >= n /\ (r = 0 \/ (r - 1) * c < n)

LinearIndex(rc) == rc[1] * geometry.columnCount + rc[2]

ItemCells == {rc \in DOMAIN rendered.cells : rendered.cells[rc].kind = "item"}

BlankCells == {rc \in DOMAIN rendered.cells : rendered.cells[rc].kind = "blank"}

\* C7: with at least one column, rowCount is ceil(n / c); every cell asked
\* for lies in the rowCount x columnCount grid, renderItem is invoked for it
\* only when its linear index is below n, and the others are blank.
C7_RowCountAndBounds ==
  /\ geometry.columnCount >= 1 =>
       rendered.rowCount = Finite(CeilDiv(Len(items), geometry.columnCount))
  /\ rendered.view = "grid" =>
       \A rc \in DOMAIN rendered.cells :
         /\ rc[1] \in 0..(rendered.rowCount.value - 1)
         /\ rc[2] \in 0..(geometry.columnCount - 1)
         /\ rc \in ItemCells <=> LinearIndex(rc) < Len(items)
         /\ rc \in BlankCells <=> LinearIndex(rc) >= Len(items)

\* C7 witness: a grid whose last row is partly filled is rendered, with an
\* item cell and a blank cell.
C7_Witness ==
  /\ rendered.view = "grid"
  /\ Len(items) % geometry.columnCount # 0
  /\ rendered.rowCount.value >= 2
  /\ ItemCells # {}
  /\ BlankCells # {}

\* C8: renderItem gets priority = TRUE exactly for linear indices below
\* priorityCount, and the index it gets is rowIndex * columnCount +
\* columnIndex; 100 items in 5 columns make 20 rows.
C8_PriorityByIndex ==
  rendered.view = "grid" =>
    /\ \A rc \in ItemCells :
         /\ rendered.cells[rc].index = LinearIndex(rc)
         /\ rendered.cells[rc].priority <=> (LinearIndex(rc) < priorityCount)
         /\ rendered.cells[rc].item = items[LinearIndex(rc) + 1]
    /\ (Len(items) = 100 /\ geometry.columnCount = 5) =>
         rendered.rowCount = Finite(20)

\* C8 witness: the scenario of 100 items, 5 columns and priorityCount 12,
\* with index 11 rendered with priority and index 12 without.
C8_Witness ==
  /\ rendered.view = "grid"
  /\ Len(items) = 100
  /\ geometry.columnCount = 5
  /\ priorityCount = 12
  /\ rendered.rowCount = Finite(20)
  /\ <<2, 1>> \in ItemCells /\ rendered.cells[<<2, 1>>].priority
  /\ <<2, 2>> \in ItemCells /\ ~rendered.cells[<<2, 2>>].priority
  /\ <<19, 4>> \in ItemCells /\ ~rendered.cells[<<19, 4>>].priority

\* C9: two cells next to each other in a row are itemWidth + gap apart.
C9_AdjacentCellsGap ==
  rendered.view = "grid" =>
    \A rc \in DOMAIN rendered.cells :
      <<rc[1], rc[2] + 1>> \in DOMAIN rendered.cells =>
        rendered.cells[<<rc[1], rc[2] + 1>>].style.left
          - rendered.cells[rc].style.left
        = geometry.itemWidth + geometry.gap

\* C10: with no items the empty-state placeholder is rendered.
C10_EmptyTakesPrecedence == Len(items) = 0 => rendered.view = "empty"

\* C10 witness: the empty state is rendered although the grid module has
\* loaded and the container has a width.
C10_Witness ==
  /\ Len(items) = 0
  /\ GridComponent
  /\ geometry.containerWidth > 0
  /\ rendered.view = "empty"

\* The three rendering states of the component.
RenderState(r) ==
  IF r.view = "empty" THEN "empty"
  ELSE IF r.view = "grid" THEN "populated"
  ELSE "uninitialized"

\* C11: while the items are not empty the empty state is never rendered and
\* the grid is rendered exactly when the module is loaded and the container
\* width is positive; the state turns populated only in the step that makes
\* both true and stays populated until the width or the items are lost.
C11_PopulatedOnce ==
  [][(Len(items) > 0 /\ Len(items') > 0) =>
       /\ RenderState(rendered) # "empty"
       /\ RenderState(rendered') # "empty"
       /\ rendered'.view = "grid"
            <=> (GridComponent' /\ geometry'.containerWidth > 0)
       /\ (RenderState(rendered) = "uninitialized"
             /\ RenderState(rendered') = "populated")
            => ~(GridComponent /\ geometry.containerWidth > 0)
       /\ (RenderState(rendered) = "populated"
             /\ geometry'.containerWidth > 0)
            => RenderState(rendered') = "populated"]_vars

\* C11 witness: the grid is rendered for a non-empty list after the module
\* has loaded and the container got a width.
C11_Witness ==
  /\ Len(items) > 0
  /\ GridComponent
  /\ geometry.containerWidth > 0
  /\ RenderState(rendered) = "populated"

\* C12: the row count the controller computes is a finite number, whatever
\* column count the layout engine reports.
C12_RowCountFinite == rendered.rowCount.kind = "finite"

\* C13: every URL among the first priorityCount entries of the list handed
\* to useImagePreload is the poster of an item whose index is below
\* priorityCount.
C13_PreloadedArePriorityPosters ==
  \A k \in 1..Min(preloadCall.count, Len(preloadCall.urls)) :
    \E j \in 1..Len(items) :
      /\ j - 1 < priorityCount
      /\ items[j] = preloadCall.urls[k]

\* C14: at every scroll offset, every in-bounds cell whose gap-adjusted
\* rectangle intersects the viewport is inside the rendered window.
C14_VisibleCellsInWindow ==
  rendered.view = "grid" =>
    \A r \in 0..(rendered.rowCount.value - 1),
       c \in 0..(geometry.columnCount - 1) :
      LET top == r * geometry.itemHeight + r * geometry.gap
      IN (/\ r * geometry.columnCount + c < Len(items)
          /\ top < scrollTop + ContainerHeight(height)
          /\ top + geometry.itemHeight > scrollTop)
         => <<r, c>> \in DOMAIN rendered.cells

\* C15 as stated: whenever a mounted instance has scheduled URL u, a preload
\* hint for u is in the document head.
C15_MountedConsumerKeepsHint ==
  \A i \in Instances :
    mounted[i] =>
      \A u \in Range(scheduled[i]) : HintsFor(head, links, u) # {}

\* C15: while an instance is mounted, every hint element it created itself
\* is in the document head, whichever other instances have unmounted.
C15_MountedKeepsOwnHints ==
  \A i \in Instances :
    mounted[i] =>
      \A e \in Range(addedLinks[i]) : e \in head /\ links[e].by = i

\* C15 witness: another instance has just unmounted and taken its hint out,
\* and a mounted instance still has the hint it created for a URL it
\* scheduled.
C15_Witness ==
  \E i \in Instances, e \in LinkIds :
    /\ mounted[i]
    /\ e \in Range(addedLinks[i])
    /\ e \in head
    /\ links[e].href \in Range(scheduled[i])
    /\ lastEvent.op = "unmount"
    /\ lastEvent.inst # i
    /\ lastEvent.removed # {}

\* --------------------------------------------------- source filter claims
\* C16: once no category request is in flight, sourceCategories belongs to
\* currentSource: empty for 'auto', else the response of the request for
\* currentSource or the empty list.
C16_CategoriesBelongToCurrentSource ==
  InFlightCount = 0 =>
    sourceCategories \in
      (IF currentSource \in SourceKeys
       THEN {ServerClass(currentSource), <<>>}
       ELSE {<<>>})

\* Positions of the categories whose name contains, letter case aside, a
\* keyword of the content type.
KeywordPositions(cats, contentType) ==
  {k \in DOMAIN cats :
     \E j \in DOMAIN CONTENT_TYPE_KEYWORDS[contentType] :
       Includes(ToLowerCase(cats[k].type_name),
                ToLowerCase(CONTENT_TYPE_KEYWORDS[contentType][j]))}

\* Positions of the categories whose name contains a fallback character.
FallbackPositions(cats) ==
  {k \in DOMAIN cats :
     \E ch \in {"pian", "ju", "man"} :
       \E p \in DOMAIN cats[k].type_name : cats[k].type_name[p] = ch}

EntriesOf(cfg, name) ==
  SelectSeq(cfg, LAMBDA e : StartsWith(e.key, TvboxPrefix(SanitizeKey(name))))

\* C18: after a merge the entries with the subscription's key prefix are one
\* per site, in the order of the sites; the array passed in holds what it
\* held before; a merge that repeats the one before leaves SourceConfig as
\* it is.
C18_MergeReplaces ==
  [][tvboxCall'.op = "merge" =>
       LET name == tvboxCall'.name
           sites == tvboxCall'.sites
           mine == EntriesOf(adminConfig', name)
       IN /\ Len(mine) = Len(sites)
          /\ \A k \in DOMAIN sites :
               /\ mine[k].key = TvboxPrefix(SanitizeKey(name)) \o sites[k].key
               /\ mine[k].name = sites[k].name
               /\ mine[k].from = "tvbox"
          /\ tvboxCall'.input = adminConfig
          /\ (tvboxCall.op = "merge" /\ tvboxCall.name = name
                /\ tvboxCall.sites = sites)
               => adminConfig' = adminConfig]_vars

\* C18 witness: a subscription with two sites has been merged over its own
\* earlier entries, and SourceConfig is what it was.
C18_Witness ==
  /\ tvboxCall.op = "merge"
  /\ Len(tvboxCall.sites) = 2
  /\ EntriesOf(tvboxCall.before, tvboxCall.name) # <<>>
  /\ adminConfig = tvboxCall.before

\* C19: a merge or a removal under a subscription name leaves every entry
\* that was not merged under that name in place and in order.
C19_OtherEntriesUnchanged ==
  tvboxCall.op \in {"merge", "remove"} =>
    SelectSeq(adminConfig, LAMBDA e : e.sub # tvboxCall.name)
      = SelectSeq(tvboxCall.before, LAMBDA e : e.sub # tvboxCall.name)

====
